---- MODULE Spec2Model ----
(***************************************************************************)
(* Model of delta_debugging_base.py: the diff-application engine           *)
(* (applyDiffToInput), the tuple codec (printSouffleTuple /                *)
(* parseSouffleTuple) and the membership check (tuplesInRelation).         *)
(*                                                                         *)
(* A Python string is a sequence of one-character strings; a file is the   *)
(* sequence of its characters; a directory maps file names to contents.    *)
(***************************************************************************)
EXTENDS Integers, Sequences, FiniteSets, TLC

VARIABLES
    pc,         \* position of the running function
    err,        \* exception that left the function, or "none"
    diffs,      \* applyDiffToInput: the diffs argument
    i,          \* applyDiffToInput: index of the next diff line to read
    toInsert,   \* applyDiffToInput: defaultdict(set), file name -> tuple strings
    toDelete,   \* applyDiffToInput: defaultdict(set), file name -> tuple strings
    inF,        \* applyDiffToInput: inputFactsFolder
    outF,       \* applyDiffToInput: outputFactsFolder
    fs,         \* the problem directory: folder -> (file name -> content)
    fs0,        \* the problem directory when the function was called
    todo,       \* what the running for-loop has still to visit
    relName,    \* codec: the relName argument of printSouffleTuple
    t,          \* codec: the t argument of printSouffleTuple
    text,       \* codec: the string printSouffleTuple returned
    ans,        \* codec: what parseSouffleTuple returned
    content,    \* tuplesInRelation: the content of the file
    tups_set,   \* tuplesInRelation: set(tups)
    found,      \* tuplesInRelation: found
    line,       \* tuplesInRelation: number of lines read
    result      \* tuplesInRelation: the returned value

vars == <<pc, err, diffs, i, toInsert, toDelete, inF, outF, fs, fs0, todo,
          relName, t, text, ans, content, tups_set, found, line, result>>

applyVars  == <<diffs, i, toInsert, toDelete, inF, outF, fs, fs0, todo>>
codecVars  == <<relName, t, text, ans>>
memberVars == <<content, tups_set, found, line, result>>

----------------------------------------------------------------------------
(* Bounds of the model *)

MaxDiffLen == 3     \* longest diffs argument
MaxFields  == 2     \* longest tuple handed to printSouffleTuple
MaxTups    == 2     \* largest candidate set handed to tuplesInRelation

----------------------------------------------------------------------------
(* Python str methods *)

Min(S) == CHOOSE x \in S : \A y \in S : x <= y
Max(S) == CHOOSE x \in S : \A y \in S : x >= y

\* str.strip() with no argument strips the characters c with c.isspace(): space,
\* \t, \n, \r, \f, then U+000B, U+001C to U+001F, U+0085, U+00A0, U+1680 (written
\* as themselves), and U+2000 to U+200A, U+2028, U+2029, U+202F, U+205F, U+3000,
\* which no string of a module can hold
WS == {" ", "\t", "\n", "\r", "\f",
       "", "", "", "", "", "", " ", " "}

rstrip(s, chars) ==
    LET keep == {k \in 1..Len(s) : s[k] \notin chars}
    IN  IF keep = {} THEN <<>> ELSE SubSeq(s, 1, Max(keep))

lstrip(s, chars) ==
    LET keep == {k \in 1..Len(s) : s[k] \notin chars}
    IN  IF keep = {} THEN <<>> ELSE SubSeq(s, Min(keep), Len(s))

strip(s, chars) == lstrip(rstrip(s, chars), chars)

startswith(s, p) == Len(s) >= Len(p) /\ SubSeq(s, 1, Len(p)) = p

endswith(s, p) == Len(s) >= Len(p) /\ SubSeq(s, Len(s) - Len(p) + 1, Len(s)) = p

\* str.find, 1-based; 0 when sep does not occur
find(s, sep) ==
    LET hits == {k \in 1..(Len(s) - Len(sep) + 1) : SubSeq(s, k, k + Len(sep) - 1) = sep}
    IN  IF hits = {} THEN 0 ELSE Min(hits)

\* str.split(sep, maxsplit); maxsplit = -1 is no limit
RECURSIVE split(_, _, _)
split(s, sep, maxsplit) ==
    LET k == find(s, sep)
    IN  IF maxsplit = 0 \/ k = 0
        THEN <<s>>
        ELSE <<SubSeq(s, 1, k - 1)>> \o split(SubSeq(s, k + Len(sep), Len(s)), sep, maxsplit - 1)

\* sep.join(xs)
RECURSIVE join(_, _)
join(sep, xs) ==
    IF xs = <<>> THEN <<>>
    ELSE IF Len(xs) = 1 THEN xs[1]
    ELSE xs[1] \o sep \o join(sep, Tail(xs))

\* open(path, 'r'): the text of a file read with universal newlines, where
\* \r\n and a lone \r reach the program as \n
RECURSIVE universal(_)
universal(c) ==
    IF c = <<>> THEN <<>>
    ELSE IF c[1] = "\r"
         THEN <<"\n">> \o universal(IF Len(c) >= 2 /\ c[2] = "\n" THEN SubSeq(c, 3, Len(c)) ELSE Tail(c))
         ELSE <<c[1]>> \o universal(Tail(c))

\* the lines of a text, each with its terminator if it has one
RECURSIVE splitlines(_)
splitlines(c) ==
    LET k == find(c, <<"\n">>)
    IN  IF c = <<>> THEN <<>>
        ELSE IF k = 0 THEN <<c>>
        ELSE <<SubSeq(c, 1, k)>> \o splitlines(SubSeq(c, k + 1, Len(c)))

\* `for l in f` on a file opened with 'r': c is the content of the file
readlines(c) == splitlines(universal(c))

\* the characters of an iterable of strings written one after the other
RECURSIVE concat(_)
concat(xs) == IF xs = <<>> THEN <<>> ELSE xs[1] \o concat(Tail(xs))

\* every order in which a set can be iterated
Orders(S) == {o \in [1..Cardinality(S) -> S] : \A a, b \in DOMAIN o : a # b => o[a] # o[b]}

----------------------------------------------------------------------------
(* Tuple codec *)

Quote == <<"\"">>
Tab   == <<"\t">>
NL    == <<"\n">>

printSouffleTuple(name, tup) ==
    LET quoted == [k \in DOMAIN tup |-> Quote \o tup[k] \o Quote]
    IN  name \o <<"(">> \o join(<<",", " ">>, quoted) \o <<")">>

\* one field of parseSouffleTuple's last comprehension
parseField(x) ==
    IF startswith(x, Quote) /\ endswith(x, Quote)
    THEN strip(SubSeq(x, 2, Len(x) - 1), WS)
    ELSE x

\* [ok |-> FALSE] is the ValueError of unpacking a one-element list
parseSouffleTuple(string) ==
    LET xs == split(string, <<"(">>, 1)
    IN  IF Len(xs) # 2 THEN [ok |-> FALSE]
        ELSE LET body   == rstrip(xs[2], {")"})
                 pieces == split(body, <<",", " ">>, -1)
                 fields == [k \in DOMAIN pieces |-> parseField(strip(pieces[k], WS))]
             IN  [ok |-> TRUE, relName |-> xs[1], xs |-> fields]

----------------------------------------------------------------------------
(* Strings of the program text *)

commit     == <<"c", "o", "m", "m", "i", "t">>
insert     == <<"i", "n", "s", "e", "r", "t">>
remove     == <<"r", "e", "m", "o", "v", "e">>
DotFacts   == <<".", "f", "a", "c", "t", "s">>
DotTxt     == <<".", "t", "x", "t">>

----------------------------------------------------------------------------
(* The inputs the model draws from *)

\* file names
EFacts == <<"e", ".", "f", "a", "c", "t", "s">>
GFacts == <<"g", ".", "f", "a", "c", "t", "s">>
KTxt   == <<"k", ".", "t", "x", "t">>
KFacts == <<"k", ".", "f", "a", "c", "t", "s">>
XCsv   == <<"x", ".", "c", "s", "v">>

\* diff lines
LineInsertH  == <<"i", "n", "s", "e", "r", "t", " ", "h", "(", "\"", "1", "\"", ",", " ", "\"", "2", "\"", ")">>     \* insert h("1", "2")  (h is declared with filename e.facts)
LineRemoveE  == <<"r", "e", "m", "o", "v", "e", " ", "e", "(", "\"", "1", "\"", ",", " ", "\"", "2", "\"", ")">>     \* remove e("1", "2")
LineCommit   == <<"c", "o", "m", "m", "i", "t", "\n">>     \* commit, with its line terminator
LineNoSpace  == <<"b", "o", "g", "u", "s">>     \* no space separator
LineUpdate   == <<"u", "p", "d", "a", "t", "e", " ", "e", "(", "\"", "1", "\"", ",", " ", "\"", "2", "\"", ")">>     \* a command that is neither insert nor remove
LineInsertG  == <<"i", "n", "s", "e", "r", "t", " ", "g", "(", "\"", "5", "\"", ")">>     \* insert g("5"): g has no file
LineRemove3  == <<"r", "e", "m", "o", "v", "e", " ", "e", "(", "\"", "3", "\"", ",", " ", "\"", "\"", ")">>     \* remove e("3", ""): last field empty
LineNoParen  == <<"i", "n", "s", "e", "r", "t", " ", "e">>     \* insert e: no parenthesis

LineInsertE  == <<"i", "n", "s", "e", "r", "t", " ", "e", "(", "\"", "5", "\"", ",", " ", "\"", "6", "\"", ")">>     \* insert e("5", "6")

LineCommitFF == <<"c", "o", "m", "m", "i", "t", "\f">>     \* commit followed by a form feed

LinePool == {LineInsertH, LineRemoveE, LineCommit, LineNoSpace, LineUpdate,
             LineInsertG, LineRemove3, LineNoParen, LineInsertE, LineCommitFF}

Diffs == UNION {[1..n -> LinePool] : n \in 0..MaxDiffLen}

\* directories
DirA == (EFacts :> <<"1", "\t", "2", "\r", "\n", "3", "\t", "\n">>) @@ (KTxt :> <<"9", "\r", "\n">>) @@ (XCsv :> <<"7", "\n">>)
DirB == (EFacts :> <<"1", "\t", "2", "\n", "3", "\t", "4">>) @@ (KFacts :> <<"9", "\n">>)
DirStale == (EFacts :> <<"0", "\n">>) @@ (GFacts :> <<"0", "\n">>)

\* the calls: folder arguments and the problem directory at the call
Calls ==
    { [inF |-> "facts", outF |-> "out",   fs |-> ("facts" :> DirB)],
      [inF |-> "facts", outF |-> "out",   fs |-> ("facts" :> DirA) @@ ("out" :> DirStale)],
      [inF |-> "facts", outF |-> "facts", fs |-> ("facts" :> DirA)] }

----------------------------------------------------------------------------
(* applyDiffToInput *)

\* what get_input_relation_names returns for the declaration file
\*   .input h(filename="e.facts")
relation_to_filename == (<<"h">> :> EFacts)

\* defaultdict(set): d[k], and d after d[k] was evaluated
get(d, k) == IF k \in DOMAIN d THEN d[k] ELSE {}
touch(d, k) == IF k \in DOMAIN d THEN d ELSE d @@ (k :> {})
add(d, k, v) == [touch(d, k) EXCEPT ![k] = @ \cup {v}]

\* toInsert.keys() | toDelete.keys()
keys(ins, del) == DOMAIN ins \cup DOMAIN del

\* a line that is not the sentinel: split, decode, resolve the file, classify
readEntry(l) ==
    LET parts == split(l, <<" ">>, 1)
    IN  IF Len(parts) # 2 THEN [kind |-> "ValueError"]
        ELSE LET command == parts[1]
                 tup     == parseSouffleTuple(parts[2])
             IN  IF ~tup.ok THEN [kind |-> "ValueError"]
                 ELSE LET rel == IF tup.relName \in DOMAIN relation_to_filename
                                 THEN relation_to_filename[tup.relName]
                                 ELSE tup.relName \o DotFacts
                          key == join(Tab, tup.xs)
                      IN  IF command = remove THEN [kind |-> "remove", rel |-> rel, key |-> key]
                          ELSE IF command = insert THEN [kind |-> "insert", rel |-> rel, key |-> key]
                          ELSE [kind |-> "pass"]

\* the loop with `continue` in the place of `break`
readDiffLine_NoBreak(l0) ==
    LET l == rstrip(l0, WS)
    IN  IF l = commit THEN [kind |-> "pass"] ELSE readEntry(l)

\* one pass of the loop over diffs: what the line makes the loop do
readDiffLine(l0) ==
    LET l == rstrip(l0, WS)
    IN  IF l = commit THEN [kind |-> "break"] ELSE readEntry(l)

\* the content written for rel: the retained lines, then the inserted ones
materialized(src, del, order) ==
    LET lines == readlines(src)
        kept  == SelectSeq(lines, LAMBDA l : rstrip(l, WS) \notin del)
    IN  concat(kept) \o concat([k \in DOMAIN order |-> order[k] \o NL])

\* the test of the copy loop without its second suffix
isFactFile_FactsOnly(file) == endswith(file, DotFacts)

\* the test of the copy loop
isFactFile(file) == endswith(file, DotFacts) \/ endswith(file, DotTxt)

\* os.makedirs(..., exist_ok=True)
makedirs(f, dir) == IF dir \in DOMAIN f THEN f ELSE f @@ (dir :> <<>>)

\* a file written in a directory
put(dir, file, c) == IF file \in DOMAIN dir THEN [dir EXCEPT ![file] = c] ELSE dir @@ (file :> c)

\* the loop with the output directory made before it instead of after
ReadLine_MakedirsFirst ==
    /\ pc = "read"
    /\ i <= Len(diffs)
    /\ LET e == readDiffLine(diffs[i])
       IN  /\ pc' = CASE e.kind = "break" -> "makedirs"
                      [] e.kind = "ValueError" -> "raised"
                      [] OTHER -> "read"
           /\ err' = IF e.kind = "ValueError" THEN "ValueError" ELSE err
           /\ i' = IF e.kind \in {"break", "ValueError"} THEN i ELSE i + 1
           /\ toInsert' = IF e.kind = "insert" THEN add(toInsert, e.rel, e.key) ELSE toInsert
           /\ toDelete' = IF e.kind = "remove" THEN add(toDelete, e.rel, e.key) ELSE toDelete
    /\ fs' = makedirs(fs, outF)
    /\ UNCHANGED <<diffs, inF, outF, fs0, todo, codecVars, memberVars>>

ReadLine ==
    /\ pc = "read"
    /\ i <= Len(diffs)
    /\ LET e == readDiffLine(diffs[i])
       IN  /\ pc' = CASE e.kind = "break" -> "makedirs"
                      [] e.kind = "ValueError" -> "raised"
                      [] OTHER -> "read"
           /\ err' = IF e.kind = "ValueError" THEN "ValueError" ELSE err
           /\ i' = IF e.kind \in {"break", "ValueError"} THEN i ELSE i + 1
           /\ toInsert' = IF e.kind = "insert" THEN add(toInsert, e.rel, e.key) ELSE toInsert
           /\ toDelete' = IF e.kind = "remove" THEN add(toDelete, e.rel, e.key) ELSE toDelete
    /\ UNCHANGED <<diffs, inF, outF, fs, fs0, todo, codecVars, memberVars>>

ReadEnd ==
    /\ pc = "read"
    /\ i > Len(diffs)
    /\ pc' = "makedirs"
    /\ UNCHANGED <<err, applyVars, codecVars, memberVars>>

MakeDirs ==
    /\ pc = "makedirs"
    /\ fs' = makedirs(fs, outF)
    /\ todo' = keys(toInsert, toDelete)
    /\ pc' = "materialize"
    /\ UNCHANGED <<err, diffs, i, toInsert, toDelete, inF, outF, fs0, codecVars, memberVars>>

\* the loop body without its os.path.exists test: open() raises on a missing file
Materialize_NoExistsCheck(rel) ==
    /\ pc = "materialize"
    /\ rel \in todo
    /\ todo' = todo \ {rel}
    /\ IF rel \notin DOMAIN fs[inF]
       THEN /\ pc' = "raised"
            /\ err' = "FileNotFoundError"
            /\ UNCHANGED <<fs, toInsert, toDelete>>
       ELSE LET src == IF outF = inF THEN <<>> ELSE fs[inF][rel]
            IN  /\ toDelete' = IF src = <<>> THEN toDelete ELSE touch(toDelete, rel)
                /\ toInsert' = touch(toInsert, rel)
                /\ \E order \in Orders(get(toInsert, rel)) :
                       fs' = [fs EXCEPT ![outF] = put(@, rel, materialized(src, get(toDelete, rel), order))]
                /\ UNCHANGED <<pc, err>>
    /\ UNCHANGED <<diffs, i, inF, outF, fs0, codecVars, memberVars>>

Materialize(rel) ==
    /\ pc = "materialize"
    /\ rel \in todo
    /\ todo' = todo \ {rel}
    /\ IF rel \notin DOMAIN fs[inF]
       THEN UNCHANGED <<fs, toInsert, toDelete>>
       ELSE \* open(..., 'w') has emptied the file before its first line is read
            LET src == IF outF = inF THEN <<>> ELSE fs[inF][rel]
            IN  /\ toDelete' = IF src = <<>> THEN toDelete ELSE touch(toDelete, rel)
                /\ toInsert' = touch(toInsert, rel)
                /\ \E order \in Orders(get(toInsert, rel)) :
                       fs' = [fs EXCEPT ![outF] = put(@, rel, materialized(src, get(toDelete, rel), order))]
    /\ UNCHANGED <<pc, err, diffs, i, inF, outF, fs0, codecVars, memberVars>>

ListDir ==
    /\ pc = "materialize"
    /\ todo = {}
    /\ todo' = DOMAIN fs[inF]
    /\ pc' = "copy"
    /\ UNCHANGED <<err, diffs, i, toInsert, toDelete, inF, outF, fs, fs0, codecVars, memberVars>>

Copy(file) ==
    /\ pc = "copy"
    /\ file \in todo
    /\ todo' = todo \ {file}
    /\ IF isFactFile(file) /\ file \notin keys(toInsert, toDelete)
       THEN IF outF = inF
            THEN \* shutil.copyfile raises SameFileError
                 /\ pc' = "raised"
                 /\ err' = "SameFileError"
                 /\ UNCHANGED fs
            ELSE /\ fs' = [fs EXCEPT ![outF] = put(@, file, fs[inF][file])]
                 /\ UNCHANGED <<pc, err>>
       ELSE UNCHANGED <<pc, err, fs>>
    /\ UNCHANGED <<diffs, i, toInsert, toDelete, inF, outF, fs0, codecVars, memberVars>>

Return ==
    /\ pc = "copy"
    /\ todo = {}
    /\ pc' = "done"
    /\ UNCHANGED <<err, applyVars, codecVars, memberVars>>

Init ==
    /\ pc = "read"
    /\ err = "none"
    /\ diffs \in Diffs
    /\ i = 1
    /\ toInsert = <<>>
    /\ toDelete = <<>>
    /\ \E c \in Calls : inF = c.inF /\ outF = c.outF /\ fs = c.fs /\ fs0 = c.fs
    /\ todo = {}
    /\ relName = <<>> /\ t = <<>> /\ text = <<>> /\ ans = <<>>
    /\ content = <<>> /\ tups_set = {} /\ found = {} /\ line = 0 /\ result = FALSE

Next ==
    \/ ReadLine
    \/ ReadEnd
    \/ MakeDirs
    \/ \E rel \in todo : Materialize(rel)
    \/ ListDir
    \/ \E file \in todo : Copy(file)
    \/ Return

Spec == Init /\ [][Next]_vars

----------------------------------------------------------------------------
(* printSouffleTuple then parseSouffleTuple *)

Names == {<<"e">>, <<"e", "d", "g", "e">>}

FieldPool == {<<"1">>, <<>>, <<"a", ",", " ", "b">>, <<" ", "a">>, <<"a", "\"">>}

Tuples == UNION {[1..n -> FieldPool] : n \in 0..MaxFields}

CallPrint ==
    /\ pc = "print"
    /\ text' = printSouffleTuple(relName, t)
    /\ pc' = "parse"
    /\ UNCHANGED <<err, applyVars, relName, t, ans, memberVars>>

CallParse ==
    /\ pc = "parse"
    /\ ans' = parseSouffleTuple(text)
    /\ pc' = "done"
    /\ UNCHANGED <<err, applyVars, relName, t, text, memberVars>>

InitCodec ==
    /\ pc = "print"
    /\ err = "none"
    /\ relName \in Names
    /\ t \in Tuples
    /\ text = <<>> /\ ans = <<>>
    /\ diffs = <<>> /\ i = 1 /\ toInsert = <<>> /\ toDelete = <<>>
    /\ inF = "facts" /\ outF = "out" /\ fs = <<>> /\ fs0 = <<>> /\ todo = {}
    /\ content = <<>> /\ tups_set = {} /\ found = {} /\ line = 0 /\ result = FALSE

NextCodec == CallPrint \/ CallParse

SpecCodec == InitCodec /\ [][NextCodec]_vars

----------------------------------------------------------------------------
(* tuplesInRelation *)

FilePool == {<<"1", "\t", "2", "\r", "\n", "3", "\t", "\n">>, <<"1", "\t", "2", "\n", "3", "\t", "4">>, <<>>}

TupPool == {<<<<"1">>, <<"2">>>>, <<<<"3">>, <<>>>>, <<<<"3">>>>, <<<<"3">>, <<"4">>>>, <<<<"7">>>>}

\* the loop body for one line of the file: found after it
scan(l0, tups, fnd) ==
    LET l   == rstrip(l0, WS)
        tup == split(l, Tab, -1)
    IN  IF tup \in tups THEN fnd \cup {tup} ELSE fnd

ScanLine ==
    /\ pc = "scan"
    /\ line < Len(readlines(content))
    /\ found' = scan(readlines(content)[line + 1], tups_set, found)
    /\ line' = line + 1
    /\ UNCHANGED <<pc, err, applyVars, codecVars, content, tups_set, result>>

ScanEnd ==
    /\ pc = "scan"
    /\ line = Len(readlines(content))
    /\ result' = (tups_set = found)
    /\ pc' = "done"
    /\ UNCHANGED <<err, applyVars, codecVars, content, tups_set, found, line>>

InitMember ==
    /\ pc = "scan"
    /\ err = "none"
    /\ content \in FilePool
    /\ tups_set \in {c \in SUBSET TupPool : Cardinality(c) <= MaxTups}
    /\ found = {} /\ line = 0 /\ result = FALSE
    /\ diffs = <<>> /\ i = 1 /\ toInsert = <<>> /\ toDelete = <<>>
    /\ inF = "facts" /\ outF = "out" /\ fs = <<>> /\ fs0 = <<>> /\ todo = {}
    /\ relName = <<>> /\ t = <<>> /\ text = <<>> /\ ans = <<>>

NextMember == ScanLine \/ ScanEnd

SpecMember == InitMember /\ [][NextMember]_vars

----------------------------------------------------------------------------
(* The vocabulary of the properties *)

Range(f) == {f[k] : k \in DOMAIN f}

Count(seq, x) == Cardinality({k \in DOMAIN seq : seq[k] = x})

\* a line without its terminator
lineText(l) == IF l # <<>> /\ l[Len(l)] = "\n" THEN SubSeq(l, 1, Len(l) - 1) ELSE l

\* the lines of a file, without their terminators
texts(c) == [k \in DOMAIN readlines(c) |-> lineText(readlines(c)[k])]

\* the index of the first commit line of d, Len(d) + 1 when it has none
FirstCommit(d) ==
    LET at == {k \in DOMAIN d : lineText(d[k]) = commit}
    IN  IF at = {} THEN Len(d) + 1 ELSE Min(at)

\* the lines before the first commit
Prefix(d) == SubSeq(d, 1, FirstCommit(d) - 1)

\* the loop over the lines d from line k on, as a function: whether it ends
\* without error, the line it stops at, and the two sets
RECURSIVE readFrom(_, _, _, _)
readFrom(d, k, ins, del) ==
    IF k > Len(d) THEN [ok |-> TRUE, at |-> k, ins |-> ins, del |-> del]
    ELSE LET e == readDiffLine(d[k])
         IN  CASE e.kind = "break"      -> [ok |-> TRUE, at |-> k, ins |-> ins, del |-> del]
               [] e.kind = "ValueError" -> [ok |-> FALSE, at |-> k, ins |-> ins, del |-> del]
               [] e.kind = "insert"     -> readFrom(d, k + 1, add(ins, e.rel, e.key), del)
               [] e.kind = "remove"     -> readFrom(d, k + 1, ins, add(del, e.rel, e.key))
               [] OTHER                 -> readFrom(d, k + 1, ins, del)

\* what reading only the lines before the first commit gives
Entries(d) == readFrom(Prefix(d), 1, <<>>, <<>>)

\* of that result E: the files touched, and the delete and insert set of file f
Touched(E) == keys(E.ins, E.del)
DeleteSet(E, f) == get(E.del, f)
InsertSet(E, f) == get(E.ins, f)

\* the shape <command> <tuplelit> with command insert or remove
WellShaped(l) ==
    LET parts == split(lineText(l), <<" ">>, 1)
    IN  Len(parts) = 2 /\ parts[1] \in {insert, remove}

\* the function got past the loop over diffs
PastRead == pc \in {"makedirs", "materialize", "copy", "done"} \/ (pc = "raised" /\ err # "ValueError")

----------------------------------------------------------------------------
(* C1: when applyDiffToInput returns, the output file of every touched     *)
(* relation whose input file exists holds, as a multiset of lines, the     *)
(* input lines whose tuple is not in the delete set plus one line per      *)
(* element of the insert set.  Stated for distinct folders.                *)
C1_Original ==
    LET E == Entries(diffs)
    IN
        (pc = "done" /\ inF # outF) =>
            \A f \in Touched(E) :
                f \in DOMAIN fs0[inF] =>
                    /\ f \in DOMAIN fs[outF]
                    /\ LET T    == texts(fs0[inF][f])
                           out  == texts(fs[outF][f])
                           kept == SelectSeq(T, LAMBDA x : x \notin DeleteSet(E, f))
                       IN  \A x \in Range(T) \cup Range(out) \cup InsertSet(E, f) :
                               Count(out, x) = Count(kept, x) + (IF x \in InsertSet(E, f) THEN 1 ELSE 0)

(* C2: when applyDiffToInput returns, every .facts or .txt file of the     *)
(* input directory that backs no insert/remove entry before the first      *)
(* commit is in the output directory with the same content.                *)
C2_Copied ==
    LET E == Entries(diffs)
    IN
        pc = "done" =>
            \A file \in DOMAIN fs0[inF] :
                ((endswith(file, DotFacts) \/ endswith(file, DotTxt)) /\ file \notin Touched(E)) =>
                    file \in DOMAIN fs[outF] /\ fs[outF][file] = fs0[inF][file]

C2_Witness ==
    LET E == Entries(diffs)
    IN
        /\ pc = "done"
        /\ EFacts \in Touched(E)
        /\ KTxt \in DOMAIN fs0[inF] /\ KTxt \notin DOMAIN fs0[outF]
        /\ fs[outF][KTxt] = fs0[inF][KTxt]

(* C3: the loop never goes past the first commit line, and what it gives   *)
(* is what it gives on the lines before the first commit alone: the same   *)
(* failure at the same line, or the same insert and delete sets.           *)
C3_StopsAtCommit ==
    LET E == Entries(diffs)
    IN
        /\ i <= FirstCommit(diffs)
        /\ err = "ValueError" => i < FirstCommit(diffs) /\ ~E.ok /\ i = E.at
        /\ PastRead =>
              /\ E.ok /\ i = E.at
              /\ \A f \in keys(toInsert, toDelete) \cup Touched(E) :
                    /\ get(toInsert, f) = InsertSet(E, f)
                    /\ get(toDelete, f) = DeleteSet(E, f)

C3_Witness ==
    LET E == Entries(diffs)
    IN
        /\ pc = "done"
        /\ Len(diffs) = FirstCommit(diffs) + 1
        /\ readDiffLine(diffs[Len(diffs)]).kind = "ValueError"
        /\ Touched(E) # {}

(* C4: every file of the input directory has the content it had at the     *)
(* call, and no file is added to or removed from the input directory.      *)
C4_Original == fs[inF] = fs0[inF]

(* C5: a line before the first commit that is not of the shape             *)
(* <command> <tuplelit> with command insert or remove makes the function   *)
(* fail: the loop never gets past such a line.                             *)
C5_Original ==
    \A k \in DOMAIN Prefix(diffs) : k < i => WellShaped(diffs[k])

(* C6: a relation of the diff with no file in the input directory raises   *)
(* no error and gets no file in the output directory, and every other      *)
(* file is still materialized or copied.                                   *)
C6_GhostSkipped ==
    LET E == Entries(diffs)
    IN
        /\ err \in {"none", "ValueError"} \/ (err = "SameFileError" /\ inF = outF)
        /\ PastRead /\ pc # "makedirs" =>
              \A f \in Touched(E) :
                  f \notin DOMAIN fs0[inF] =>
                      /\ f \in DOMAIN fs[outF] <=> (outF \in DOMAIN fs0 /\ f \in DOMAIN fs0[outF])
                      /\ f \in DOMAIN fs[outF] => fs[outF][f] = fs0[outF][f]
        /\ pc = "done" =>
              \A f \in DOMAIN fs0[inF] :
                  (f \in Touched(E) \/ endswith(f, DotFacts) \/ endswith(f, DotTxt)) =>
                      f \in DOMAIN fs[outF]

C6_Witness ==
    LET E == Entries(diffs)
    IN
        /\ pc = "done"
        /\ inF # outF
        /\ GFacts \in DOMAIN toInsert
        /\ GFacts \notin DOMAIN fs[outF]
        /\ EFacts \in Touched(E)
        /\ fs[outF][EFacts] # fs0[inF][EFacts]

(* C8: when the function returns, a tuple that is in both the insert set   *)
(* and the delete set of a relation whose input file exists is a line of   *)
(* the output file.                                                        *)
C8_Original ==
    LET E == Entries(diffs)
    IN
        pc = "done" =>
            \A f \in Touched(E) :
                f \in DOMAIN fs0[inF] =>
                    \A x \in InsertSet(E, f) \cap DeleteSet(E, f) :
                        f \in DOMAIN fs[outF] /\ x \in Range(texts(fs[outF][f]))

(* C10: while the diff is read, and when reading it has failed, the        *)
(* problem directory is as it was at the call: no directory made, no file  *)
(* written or copied.                                                      *)
C10_ReadBeforeWrite ==
    (pc = "read" \/ (pc = "raised" /\ err = "ValueError")) => fs = fs0

C10_Witness ==
    /\ pc = "raised"
    /\ err = "ValueError"
    /\ i = 3
    /\ diffs[i] = LineNoParen
    /\ DOMAIN toInsert # {}
    /\ outF \notin DOMAIN fs

(* C7: for tuples whose fields hold no quote character, parsing the        *)
(* printed tuple gives back the relation name and the tuple.               *)
C7_Original ==
    (pc = "done" /\ \A k \in DOMAIN t : "\"" \notin Range(t[k])) =>
        ans = [ok |-> TRUE, relName |-> relName, xs |-> t]

(* C9: tuplesInRelation returns true exactly when every candidate tuple    *)
(* is, tab-separated, a line of the file.                                  *)
C9_Original ==
    pc = "done" =>
        (result <=> \A c \in tups_set : \E k \in DOMAIN texts(content) : split(texts(content)[k], Tab, -1) = c)

====
